---- MODULE Spec2Model ----
(***************************************************************************)
(* Model of neo.rawio.tdtrawio.TdtRawIO: the open-time pass _parse_header  *)
(* (segment discovery, TBK descriptors, TEV buffers, TSQ index, sort       *)
(* overlay, chronological reordering, stream indexing, missing-SEV         *)
(* warning) and the data-plane operations on the tables it builds.         *)
(*                                                                         *)
(* Modelling conventions                                                   *)
(*  - float64 timestamps are integers; NaN is the reserved value NaN and   *)
(*    every comparison goes through FEq / FLess, which follow IEEE rules.  *)
(*  - a data buffer is [file |-> name]; byte k of a file is identified by  *)
(*    (file, k); the element obtained by viewing w bytes at offset k is    *)
(*    [file, at, width], so that reinterpretation is injective.  Files are *)
(*    assumed to hold every chunk the index points to.                     *)
(*  - index files have at least two records.                               *)
(***************************************************************************)
EXTENDS Integers, Sequences, FiniteSets, TLC

\* ---------------------------------------------------------------- bounds
MaxSeg    == 2      \* segments per tank
MaxChunks == 2      \* chunks per channel and segment
MaxLabels == 4      \* labels in a .SortResult overlay
Spc       == 3      \* NumPoints of the generated stores

\* ------------------------------------------------------- program constants
EVTYPE_UNKNOWN        == 0
EVTYPE_STRON          == 257
EVTYPE_STREAM         == 33025
EVTYPE_STREAM_VARIANT == 33041
EVTYPE_SNIP           == 33281
EVMARK_STARTBLOCK     == 1
EVMARK_STOPBLOCK      == 2
NaN                   == -1
None                  == "None"
\* an attribute or local that holds a list, a number or a record is kept in a
\* one-element tuple; the empty tuple is Python's None
Unset                 == << >>

\* chr(n).encode(): the one-byte store name of a block marker
Chr(n) == CASE n = 1 -> "\\x01" [] n = 2 -> "\\x02" [] OTHER -> "\\x00"

\* data_formats: data-format code -> sample type name
data_formats == [c \in 0..4 |->
    CASE c = 0 -> "float32" [] c = 1 -> "int32" [] c = 2 -> "int16"
      [] c = 3 -> "int8" [] OTHER -> "float64"]

\* np.dtype(x): Python's int class becomes int64, names stay
NpDtype(d) == IF d = "int" THEN "int64" ELSE d

\* np.dtype(x).itemsize
ItemSize(d) == CASE d = "float32" -> 4 [] d = "int32" -> 4 [] d = "int16" -> 2
                 [] d = "int8" -> 1 [] OTHER -> 8

\* IEEE comparisons on timestamps
FEq(a, b)   == a # NaN /\ b # NaN /\ a = b
FLess(a, b) == a # NaN /\ b # NaN /\ a < b
FSub(a, b)  == IF a = NaN \/ b = NaN THEN NaN ELSE a - b
FAdd(a, b)  == IF a = NaN \/ b = NaN THEN NaN ELSE a + b
FGe(a, b)   == a # NaN /\ b # NaN /\ a >= b
FLe(a, b)   == a # NaN /\ b # NaN /\ a <= b

\* assignment of an int8 label into the uint16 sortcode field
ToUint16(v) == v % 65536

Range(s) == {s[k] : k \in DOMAIN s}
Min(a, b) == IF a < b THEN a ELSE b

\* ----------------------------------------------------- generated recordings
\* A recording (the directory tree handed to __init__) is
\*   [mode, sortname, sort, entries, sev]
\* entries: directory entries of the tank in enumeration order, each
\*   [name, isblock, tbk, tsq, tev]; sort: the sort/<sortname> directory;
\* sev: the per-channel .sev files that exist.

Info(store, evtype, numchan, npts) ==
    [StoreName |-> store, NumChan |-> numchan, TankEvType |-> evtype,
     NumPoints |-> npts, DataFormat |-> 0, SampleFreq |-> 2]

Wav(npts) == Info("Wav1", EVTYPE_STREAM, 2, npts)
WavV == Info("Wav1", EVTYPE_STREAM_VARIANT, 2, Spc)
Wav1ch == Info("Wav1", EVTYPE_STREAM, 1, Spc)
LFP == Info("LFP1", EVTYPE_STREAM, 1, Spc)
eNe == Info("eNe1", EVTYPE_SNIP, 1, Spc)
Tick == Info("Tick", EVTYPE_STRON, 1, Spc)

DL1 == << Wav(Spc) >>
DL2 == << LFP, Wav(Spc) >>
DL3 == << WavV >>
DL4 == << eNe, Wav(Spc) >>
DL5 == << Wav1ch, eNe, Tick >>
DL6 == << eNe, Tick >>
DescLists == {DL1, DL2, DL3, DL4, << Wav1ch >>}

Rec(evtype, evname, channel, sortcode, timestamp, offset, dataformat, frequency) ==
    [evtype |-> evtype, evname |-> evname, channel |-> channel,
     sortcode |-> sortcode, timestamp |-> timestamp, offset |-> offset,
     dataformat |-> dataformat, frequency |-> frequency]

\* the (store, channel) lanes written at every time slot, in file order; the
\* records of an event store carry channel 0
RECURSIVE Lanes(_)
Lanes(lay) ==
    IF lay = << >> THEN << >>
    ELSE [c \in 1..Head(lay).NumChan |->
             [info |-> Head(lay),
              chan |-> IF Head(lay).TankEvType = EVTYPE_STRON THEN 0 ELSE c]]
         \o Lanes(Tail(lay))

Quirks == {"plain", "variant", "rate_all", "rate_tail", "fmt_all", "fmt_tail", "short"}

\* bytes between consecutive chunks of a generated data file
Stride(lay) == Head(lay).NumPoints * 8

BodyRec(lay, t0, quirk, p) ==
    LET L    == Len(Lanes(lay))
        slot == (p \div L) + 1
        lane == Lanes(lay)[(p % L) + 1]
        strm == lane.info.TankEvType \in {EVTYPE_STREAM, EVTYPE_STREAM_VARIANT}
        evt  == IF strm /\ quirk = "variant" THEN EVTYPE_STREAM_VARIANT
                ELSE IF strm THEN EVTYPE_STREAM ELSE lane.info.TankEvType
        fmt  == IF quirk = "fmt_all" \/ (quirk = "fmt_tail" /\ slot > 1) THEN 2 ELSE 0
        rate == IF quirk = "rate_all" \/ (quirk = "rate_tail" /\ slot > 1) THEN 4 ELSE 2
    IN Rec(evt, lane.info.StoreName, lane.chan, IF strm THEN 0 ELSE 1,
           t0 + slot, p * Stride(lay), fmt, rate)

Body(lay, t0, nslots, quirk) ==
    LET L    == Len(Lanes(lay))
        full == [q \in 1..(nslots * L) |-> BodyRec(lay, t0, quirk, q - 1)]
        last == Lanes(lay)[L]
        Keep(r) == ~(quirk = "short" /\ r.evname = last.info.StoreName
                     /\ r.channel = last.chan /\ r.timestamp = t0 + nslots)
    IN SelectSeq(full, Keep)

Tsq(lay, t0, hasStart, hasStop, nslots, quirk) ==
    << Rec(EVTYPE_UNKNOWN, "\\x00", 0, 0, 0, 0, 0, 0),
       Rec(EVTYPE_UNKNOWN, IF hasStart THEN Chr(EVMARK_STARTBLOCK) ELSE "\\x00",
           0, 0, t0, 0, 0, 0) >>
    \o Body(lay, t0, nslots, quirk)
    \o << Rec(EVTYPE_UNKNOWN, IF hasStop THEN Chr(EVMARK_STOPBLOCK) ELSE "\\x00",
              0, 0, t0 + 10, 0, 0, 0) >>

BlockName(k) == CASE k = 1 -> "Block-1" [] k = 2 -> "Block-2" [] k = 3 -> "Block-3"
                  [] OTHER -> "Block-4"

Block(name, tbk, tsq, tev) ==
    [name |-> name, isblock |-> TRUE, tbk |-> tbk, tsq |-> tsq, tev |-> tev]
Other(name) ==
    [name |-> name, isblock |-> FALSE, tbk |-> << >>, tsq |-> << >>, tev |-> FALSE]

Recording(mode, sortname, sort, entries, sev) ==
    [mode |-> mode, sortname |-> sortname, sort |-> sort, entries |-> entries,
     sev |-> sev]

\* the sort directory: absent, without a .SortResult file, or holding a file of
\* k labels 2, 2, 3, -1, 2, 2, 3, -1 ...
NoSort(kind) == [kind |-> kind, labels |-> << >>]
Labels(k) == [kind |-> "file",
              labels |-> [j \in 1..k |-> CASE j % 4 = 1 -> 2 [] j % 4 = 2 -> 2
                                           [] j % 4 = 3 -> 3 [] OTHER -> -1]]

StartTimes == {50, 100}

\* one generated block directory (its .Tbk, .tsq and whether <stem>.tev exists)
Seg(k, lay, tbk, t0, hasStart, hasStop, nslots, quirk, tev) ==
    Block(BlockName(k), tbk, Tsq(lay, t0, hasStart, hasStop, nslots, quirk), tev)

\* start time of the k-th enumerated block when times are not the varied input
AltTime(k) == IF k % 2 = 1 THEN 100 ELSE 50

\* the dedicated file of channel c of a store, as the recorder names it
SevFile(dir, seg, store, cap, chan) ==
    [dir |-> dir, tank |-> "tank", seg |-> seg, store |-> store, cap |-> cap,
     chan |-> chan]

\* recordings whose segment start/stop markers and times vary
TimeRecordings ==
    UNION { { Recording("multi", "", NoSort("nodir"),
                [k \in 1..n |-> Seg(k, DL1, DL1, f[k][1], f[k][2], f[k][3], ns,
                                    "plain", TRUE)], {})
              : f \in [1..n -> StartTimes \X BOOLEAN \X BOOLEAN] }
            : n \in 0..MaxSeg, ns \in 0..1 }

\* recordings whose chunk records vary
ChunkRecordings ==
    UNION { { Recording("multi", "", NoSort("nodir"),
                [k \in 1..n |-> Seg(k, DL1, DL1, AltTime(k), TRUE, TRUE, f[k][1],
                                    f[k][2], TRUE)], {})
              : f \in [1..n -> (0..MaxChunks) \X Quirks] }
            : n \in 1..MaxSeg }

\* recordings with several channel groups
GroupRecordings ==
    UNION { { Recording("multi", "", NoSort("nodir"),
                [k \in 1..n |-> Seg(k, lay, lay, AltTime(k), TRUE, TRUE, f[k][1],
                                    f[k][2], TRUE)], {})
              : f \in [1..n -> (0..MaxChunks) \X {"plain", "variant"}] }
            : n \in 1..MaxSeg, lay \in {DL2, DL3, DL4} }

\* recordings whose descriptor files vary from block to block
DescRecordings ==
    UNION { { Recording("multi", "", NoSort("nodir"),
                [k \in 1..n |-> Seg(k, DL1, f[k], AltTime(k), TRUE, TRUE, 1,
                                    "plain", TRUE)], {})
              : f \in [1..n -> DescLists] }
            : n \in 1..MaxSeg }

SortFiles == {NoSort("nodir"), NoSort("nofile")} \cup {Labels(k) : k \in 0..MaxLabels}

\* recordings opened with a sort name
SortRecordings ==
    UNION { { Recording(mode, sortname, sort,
                [k \in 1..n |-> Seg(k, lay, lay, AltTime(k), TRUE, TRUE, f[k],
                                    "plain", TRUE)], {})
              : f \in IF mode = "single" /\ n > 1 THEN {}
                       ELSE [1..n -> 0..MaxChunks] }
            : mode \in {"multi", "single"}, n \in 1..MaxSeg, lay \in {DL1, DL4},
              sort \in SortFiles, sortname \in {"PLX"} }
    \cup { Recording("multi", "", Labels(3), << Seg(1, DL1, DL1, 50, TRUE, TRUE, 1,
                                                    "plain", TRUE) >>, {}) }

\* the dedicated files of every channel of the listed blocks, kept in directory
\* dirOf[k] of block k
SevOf(lay, ks, where) ==
    { SevFile(IF where = "own" THEN BlockName(k) ELSE "tank", BlockName(k),
              Lanes(lay)[l].info.StoreName, FALSE, Lanes(lay)[l].chan)
      : k \in ks, l \in 1..Len(Lanes(lay)) }

\* tanks with and without dedicated per-channel files
MultiFileRecordings ==
    UNION { { Recording("multi", sortname, NoSort("nodir"),
                [k \in 1..n |-> Seg(k, DL1, DL1, AltTime(k), TRUE, TRUE, 1, "plain",
                                    tevs[k])]
                \o (IF trail THEN << Other("notes.txt") >> ELSE << >>),
                SevOf(DL1, ks, where))
              : tevs \in [1..n -> BOOLEAN], ks \in SUBSET (1..n) }
            : n \in 1..MaxSeg, sortname \in {"", "PLX"}, trail \in BOOLEAN,
              where \in {"own", "tank"} }

\* the .sev files found next to a single block
SingleSevSets ==
    { {},
      { SevFile("parent", "Block-1", "Wav1", FALSE, 1), SevFile("parent", "Block-1", "Wav1", FALSE, 2) },
      { SevFile("parent", "Block-1", "Wav1", TRUE, 1) },
      { SevFile("parent", "Block-1", "Wav1", FALSE, 1), SevFile("parent", "Block-1", "LFP1", FALSE, 1) },
      { SevFile("parent", "Block-1", "Wav1", TRUE, 1), SevFile("parent", "Block-1", "LFP1", TRUE, 1),
        SevFile("parent", "Block-1", "Wav1", TRUE, 2) } }

\* single files, with the parent directory a block or not
SingleFileRecordings ==
    { Recording("single", sortname, NoSort("nodir"),
                << Seg(1, lay, lay, 50, TRUE, TRUE, 1, "plain", tev) >>, sev)
      : sortname \in {"", "PLX"}, lay \in {DL1, DL2}, tev \in BOOLEAN,
        sev \in SingleSevSets }
    \cup { Recording("single", "", NoSort("nodir"), << Other("parent") >>, {}) }

\* tanks with spike and event stores, with and without a .tev file
EventRecordings ==
    UNION { { Recording("multi", "", NoSort("nodir"),
                [k \in 1..n |-> Seg(k, lay, lay, AltTime(k), TRUE, TRUE, f[k][1],
                                    "plain", f[k][2])], {})
              : f \in [1..n -> (0..MaxChunks) \X BOOLEAN] }
            : n \in 1..MaxSeg, lay \in {DL5, DL6} }

Recordings ==
    TimeRecordings \cup ChunkRecordings \cup GroupRecordings \cup DescRecordings
    \cup SortRecordings \cup MultiFileRecordings \cup SingleFileRecordings
    \cup EventRecordings

\* ------------------------------------------------------------------ state
VARIABLES
    fs,                     \* the directory tree read by open (never written)
    pc,                     \* position in _parse_header / "done" / "failed"
    seg_index,              \* loop counter of the per-segment loops
    segment_names, tankname, path,
    info_channel_groups,
    tev_datas, tsq, seg_t_starts, seg_t_stops, global_t_start,
    sigs_index, sigs_data_buf, sig_dtype_by_group, sig_sample_per_chunk,
    sigs_lengths, sigs_t_start,
    stream_index, c, sampling_rate, dtype,
    missing_sev_channels, signal_streams, signal_channels,
    warnings,               \* warnings.warn calls so far
    error,                  \* the exception that ended open, or None
    header,
    internal_unit_ids, waveforms_size, waveforms_dtype,
    call, ret               \* last data-plane call and its return value

locateVars == << segment_names, tankname, path >>
loadVars   == << tev_datas, tsq, seg_t_starts, seg_t_stops, global_t_start >>
indexVars  == << sigs_index, sigs_data_buf, sig_dtype_by_group, sig_sample_per_chunk,
                 sigs_lengths, sigs_t_start >>
loopVars   == << stream_index, c, sampling_rate, dtype, missing_sev_channels,
                 signal_streams, signal_channels >>
unitVars   == << internal_unit_ids, waveforms_size, waveforms_dtype >>
planeVars  == << call, ret >>
vars == << fs, pc, seg_index, locateVars, info_channel_groups, loadVars, indexVars,
           loopVars, warnings, error, header, unitVars, planeVars >>

nb_segment == Len(segment_names)

\* TdtRawIO.__init__ followed by nothing else
InitOn(R) ==
    /\ fs \in R
    /\ pc = "locate"
    /\ seg_index = 0
    /\ segment_names = << >> /\ tankname = None /\ path = None
    /\ info_channel_groups = Unset
    /\ tev_datas = << >> /\ tsq = << >> /\ seg_t_starts = << >> /\ seg_t_stops = << >>
    /\ global_t_start = Unset
    /\ sigs_index = << >> /\ sigs_data_buf = << >> /\ sig_dtype_by_group = << >>
    /\ sig_sample_per_chunk = << >> /\ sigs_lengths = << >> /\ sigs_t_start = << >>
    /\ stream_index = 0 /\ c = 0 /\ sampling_rate = Unset /\ dtype = None
    /\ missing_sev_channels = << >> /\ signal_streams = << >> /\ signal_channels = << >>
    /\ warnings = << >>
    /\ error = None
    /\ header = Unset
    /\ internal_unit_ids = << >> /\ waveforms_size = << >> /\ waveforms_dtype = << >>
    /\ call = [op |-> "none"] /\ ret = Unset

Init == InitOn(Recordings)

\* an exception leaves _parse_header: open has failed
Raise(e) == pc' = "failed" /\ error' = e

\* the entry of the recording that holds a segment's files
EntryOf(name) == CHOOSE e \in Range(fs.entries) : e.isblock /\ e.name = name

\* lines 79-93: discover the segments
Locate ==
    /\ pc = "locate"
    /\ LET IsBlock(e) == e.isblock
           blocks == SelectSeq(fs.entries, IsBlock)
           names  == [k \in 1..Len(blocks) |-> blocks[k].name]
       IN /\ segment_names' = names
          /\ tankname' = IF fs.mode = "multi" THEN "tank" ELSE None
          /\ path' = IF fs.mode = "multi" /\ fs.entries # << >>
                     THEN fs.entries[Len(fs.entries)].name ELSE None
          /\ warnings' = IF names = << >>
                         THEN Append(warnings, [msg |-> "Could not find any data set",
                                                 channels |-> << >>])
                         ELSE warnings
    /\ pc' = "tbk"
    /\ seg_index' = 0
    /\ UNCHANGED << fs, unitVars, info_channel_groups, loadVars, indexVars, loopVars, error,
                    header, planeVars >>

\* read_tbk: the descriptor list of one block
read_tbk(name) == EntryOf(name).tbk

\* a comparison of the shapes only
array_equal_shape(a, b) == Len(a) = Len(b)

\* np.array_equal on two descriptor arrays
array_equal(a, b) == Len(a) = Len(b) /\ \A k \in 1..Len(a) : a[k] = b[k]

\* lines 95-106: one iteration of the TBK loop
ReadTbk ==
    /\ pc = "tbk"
    /\ IF seg_index >= nb_segment
       THEN /\ pc' = "tev"
            /\ UNCHANGED << seg_index, info_channel_groups, error >>
       ELSE LET info == read_tbk(segment_names[seg_index + 1])
            IN IF info_channel_groups = Unset
               THEN /\ info_channel_groups' = << info >>
                    /\ seg_index' = seg_index + 1
                    /\ UNCHANGED << pc, error >>
               ELSE IF array_equal(info_channel_groups[1], info)
               THEN /\ seg_index' = seg_index + 1
                    /\ UNCHANGED << pc, info_channel_groups, error >>
               ELSE /\ Raise("AssertionError: Channels differ across segments")
                    /\ UNCHANGED << seg_index, info_channel_groups >>
    /\ UNCHANGED << fs, unitVars, locateVars, loadVars, indexVars, loopVars, warnings, header,
                    planeVars >>

\* a memory-mapped data file
TevBuf(seg) == [kind |-> "tev", dir |-> seg, tank |-> "tank", seg |-> seg,
                store |-> "", cap |-> FALSE, chan |-> 0]
SevBuf(f)   == [kind |-> "sev", dir |-> f.dir, tank |-> f.tank, seg |-> f.seg,
                store |-> f.store, cap |-> f.cap, chan |-> f.chan]
NoBuf       == [kind |-> "none", dir |-> "", tank |-> "", seg |-> "", store |-> "",
                cap |-> FALSE, chan |-> 0]

\* lines 108-116: map <stem>.tev of every segment, None where it does not exist
MapTev ==
    /\ pc = "tev"
    /\ tev_datas' = [k \in 1..nb_segment |->
                        IF EntryOf(segment_names[k]).tev
                        THEN TevBuf(segment_names[k]) ELSE NoBuf]
    /\ pc' = "tsq"
    /\ seg_index' = 0
    /\ UNCHANGED << fs, unitVars, locateVars, info_channel_groups, tsq, seg_t_starts,
                    seg_t_stops, global_t_start, indexVars, loopVars, warnings,
                    error, header, planeVars >>

\* lines 128-137: the block markers of an index array (tsq[1] and tsq[-1])
StartOf(t) == IF t[2].evname = Chr(EVMARK_STARTBLOCK) THEN t[2].timestamp ELSE NaN
StopOf(t)  == IF t[Len(t)].evname = Chr(EVMARK_STOPBLOCK)
              THEN t[Len(t)].timestamp ELSE NaN

\* line 154: tsq['sortcode'][1:-1] = newsortcode is possible when the shapes
\* broadcast
Broadcasts(t, labels) == Len(labels) = Len(t) - 2 \/ Len(labels) = 1

\* tsq['sortcode'][0:-2] = newsortcode
Overlay_from_first(t, labels) ==
    [k \in 1..Len(t) |->
        IF k <= Len(t) - 2
        THEN [t[k] EXCEPT !.sortcode =
                 ToUint16(IF Len(labels) = 1 THEN labels[1] ELSE labels[k])]
        ELSE t[k]]

\* line 154: tsq['sortcode'][1:-1] = newsortcode
Overlay(t, labels) ==
    [k \in 1..Len(t) |->
        IF k >= 2 /\ k <= Len(t) - 1
        THEN [t[k] EXCEPT !.sortcode =
                 ToUint16(IF Len(labels) = 1 THEN labels[1] ELSE labels[k - 1])]
        ELSE t[k]]

\* lines 143-146: the directory that holds sort/<sortname>
SortRoot == IF fs.mode = "multi" THEN "tank" ELSE "parent"

\* the sort overlay without the except clause
sort_overlay_uncaught(t) ==
    IF fs.sortname = "" THEN [raised |-> None, t |-> t]
    ELSE IF fs.sort.kind = "nodir"
    THEN [raised |-> "FileNotFoundError: sort directory", t |-> t]
    ELSE IF fs.sort.kind = "nofile"
    THEN [raised |-> None, t |-> t]
    ELSE IF Broadcasts(t, fs.sort.labels)
    THEN [raised |-> None, t |-> Overlay(t, fs.sort.labels)]
    ELSE [raised |-> "ValueError: could not broadcast input array", t |-> t]

\* lines 141-158: the sort overlay of one index array; raised is the exception
\* that leaves the try block, if any
sort_overlay(t) ==
    IF fs.sortname = "" THEN [raised |-> None, t |-> t]
    ELSE IF fs.sort.kind = "nodir"
    THEN [raised |-> None, t |-> t]         \* os.listdir: OSError, caught
    ELSE IF fs.sort.kind = "nofile"
    THEN [raised |-> None, t |-> t]         \* no file ends with .SortResult
    ELSE IF Broadcasts(t, fs.sort.labels)
    THEN [raised |-> None, t |-> Overlay(t, fs.sort.labels)]
    ELSE [raised |-> "ValueError: could not broadcast input array", t |-> t]

\* lines 122-158: one iteration of the TSQ loop
LoadTsq ==
    /\ pc = "tsq"
    /\ IF seg_index >= nb_segment
       THEN /\ pc' = "reorder"
            /\ UNCHANGED << seg_index, tsq, seg_t_starts, seg_t_stops, path, error >>
       ELSE LET t == EntryOf(segment_names[seg_index + 1]).tsq
            IN /\ seg_t_starts' = Append(seg_t_starts, StartOf(t))
               /\ seg_t_stops' = Append(seg_t_stops, StopOf(t))
               /\ path' = IF fs.sortname # "" THEN SortRoot ELSE path
               /\ tsq' = Append(tsq, sort_overlay(t).t)
               /\ IF sort_overlay(t).raised = None
                  THEN /\ seg_index' = seg_index + 1
                       /\ UNCHANGED << pc, error >>
                  ELSE /\ Raise(sort_overlay(t).raised)
                       /\ UNCHANGED seg_index
    /\ UNCHANGED << fs, unitVars, segment_names, tankname, info_channel_groups, tev_datas,
                    global_t_start, indexVars, loopVars, warnings, header,
                    planeVars >>

Perms(n) == { p \in [1..n -> 1..n] : \A a, b \in 1..n : p[a] = p[b] => a = b }

\* the order np.argsort sorts by: numbers ascending, NaN after every number
SortsBefore(x, y) == x # NaN /\ (y = NaN \/ x < y)

\* argsort of the negated keys: descending order
IsArgsortDescending(p, a) ==
    \A x, y \in 1..Len(a) : x < y => ~SortsBefore(a[p[x]], a[p[y]])

\* np.argsort: a permutation that sorts a (equal keys in either order)
IsArgsort(p, a) ==
    \A x, y \in 1..Len(a) : x < y => ~SortsBefore(a[p[y]], a[p[x]])

Permute(a, p) == [k \in 1..Len(a) |-> a[p[k]]]

\* line 182: the descriptors the stream loop runs over
Streams(info) ==
    LET Keep(d) == d.TankEvType = EVTYPE_STREAM
    IN SelectSeq(info, Keep)

\* lines 160-183: reorder the segments by start time, set the time origin
Reorder ==
    /\ pc = "reorder"
    /\ \E sort_inds \in Perms(nb_segment) :
        /\ IsArgsort(sort_inds, seg_t_starts)
        /\ segment_names' = Permute(segment_names, sort_inds)
        /\ tev_datas' = Permute(tev_datas, sort_inds)
        /\ seg_t_starts' = Permute(seg_t_starts, sort_inds)
        /\ seg_t_stops' = Permute(seg_t_stops, sort_inds)
        /\ tsq' = Permute(tsq, sort_inds)
        /\ IF nb_segment = 0
           THEN /\ Raise("IndexError: list index out of range")
                /\ UNCHANGED global_t_start
           ELSE /\ global_t_start' = << seg_t_starts[sort_inds[1]] >>
                /\ pc' = IF Streams(info_channel_groups[1]) = << >>
                         THEN "warn" ELSE "index"
                /\ UNCHANGED error
    /\ seg_index' = 0
    /\ UNCHANGED << fs, unitVars, tankname, path, info_channel_groups, indexVars, loopVars,
                    warnings, header, planeVars >>

\* a dict assignment d[key] = val
Put(d, key, val) == [k \in DOMAIN d \cup {key} |-> IF k = key THEN val ELSE d[k]]

\* the selection without the variant tag
data_index_of_stream_only(t, info, chan_id) ==
    LET Mask(r) == /\ r.evtype = EVTYPE_STREAM
                   /\ r.evname = info.StoreName
                   /\ r.channel = chan_id
    IN SelectSeq(t, Mask)

\* lines 201-205: the chunk records of channel chan_id of a store
data_index_of(t, info, chan_id) ==
    LET Mask(r) == /\ (r.evtype = EVTYPE_STREAM \/ r.evtype = EVTYPE_STREAM_VARIANT)
                   /\ r.evname = info.StoreName
                   /\ r.channel = chan_id
    IN SelectSeq(t, Mask)

\* the single-block search without the second, store-specific pattern
sev_filename_of_one_glob(info, chan_id, segment_name) ==
    IF fs.mode = "multi"
    THEN [found |-> TRUE, missing |-> FALSE,
          file |-> [dir |-> path, tank |-> tankname, seg |-> segment_name,
                    store |-> info.StoreName, cap |-> FALSE, chan |-> chan_id]]
    ELSE LET hits == { f \in fs.sev : f.dir = "parent" /\ f.chan = chan_id }
         IN IF Cardinality(hits) # 1
            THEN [found |-> FALSE, missing |-> TRUE, file |-> NoBuf]
            ELSE [found |-> TRUE, missing |-> FALSE,
                  file |-> CHOOSE f \in hits : TRUE]

\* lines 246-266: the dedicated file chosen for a channel, if any:
\* [found |-> BOOLEAN, missing |-> BOOLEAN, file |-> ...]
sev_filename_of(info, chan_id, segment_name) ==
    IF fs.mode = "multi"
    THEN [found |-> TRUE, missing |-> FALSE,
          file |-> [dir |-> path, tank |-> tankname, seg |-> segment_name,
                    store |-> info.StoreName, cap |-> FALSE, chan |-> chan_id]]
    ELSE LET byChan  == { f \in fs.sev : f.dir = "parent" /\ f.chan = chan_id }
             byStore == { f \in fs.sev : f.dir = "parent" /\ f.chan = chan_id
                                         /\ f.store = info.StoreName /\ f.cap }
             hits    == IF Cardinality(byChan) > 1 THEN byStore ELSE byChan
         IN IF Cardinality(hits) # 1
            THEN [found |-> FALSE, missing |-> TRUE, file |-> NoBuf]
            ELSE [found |-> TRUE, missing |-> FALSE,
                  file |-> CHOOSE f \in hits : TRUE]

\* lines 268-271: the buffer a channel reads from
data_buf_of(sev, seg) ==
    IF sev.found /\ sev.file \in fs.sev THEN SevBuf(sev.file) ELSE tev_datas[seg]

\* lines 236-239: the sample type of a channel's first segment against the one
\* recorded for its group
group_dtype_ok(stream, dt) ==
    stream \notin DOMAIN sig_dtype_by_group \/ sig_dtype_by_group[stream] = NpDtype(dt)

\* the comparison of the rates only
sampling_unchanged_rate_only(prev_rate, prev_dtype, sr, dt) == prev_rate = sr

\* lines 241-242: the rate and sample type of a later segment against those of
\* the channel's first segment
sampling_unchanged(prev_rate, prev_dtype, sr, dt) == prev_rate = sr /\ prev_dtype = dt

\* lines 184-281: one iteration of the innermost (segment) loop of the stream
\* indexer, with the channel prologue and epilogue when it is the first or the
\* last segment
IndexStep ==
    /\ pc = "index"
    /\ LET streams == Streams(info_channel_groups[1])
           info    == streams[stream_index + 1]
           chan_id == c + 1
           gci     == Len(signal_channels)
           key     == << seg_index, stream_index >>
           di      == data_index_of(tsq[seg_index + 1], info, chan_id)
           size    == info.NumPoints * Len(di)
           lenOk   == key \notin DOMAIN sigs_lengths \/ sigs_lengths[key] = size
           t_start == IF Len(di) > 0 THEN di[1].timestamp
                      ELSE seg_t_starts[seg_index + 1]
           tOk     == key \notin DOMAIN sigs_t_start \/ FEq(sigs_t_start[key], t_start)
           sr      == IF Len(di) > 0 THEN di[1].frequency ELSE 1
           dt      == IF Len(di) > 0 THEN data_formats[di[1].dataformat] ELSE "int"
           first   == seg_index = 0
           typeOk  == IF first THEN group_dtype_ok(stream_index, dt)
                      ELSE sampling_unchanged(sampling_rate[1], dtype, sr, dt)
           sev     == sev_filename_of(info, chan_id, segment_names[seg_index + 1])
           data    == data_buf_of(sev, seg_index + 1)
           r2      == lenOk
           r3      == r2 /\ tOk
           r4      == r3 /\ typeOk
           r5      == r4 /\ data.kind # "none"
           lastSeg == seg_index + 1 = nb_segment
           lastCh  == c + 1 = info.NumChan
           lastStr == stream_index + 1 = Len(streams)
       IN /\ sig_sample_per_chunk' =
                IF c = 0 /\ seg_index = 0
                THEN Put(sig_sample_per_chunk, stream_index, info.NumPoints)
                ELSE sig_sample_per_chunk
          /\ signal_streams' =
                IF c = 0 /\ seg_index = 0
                THEN Append(signal_streams, [name |-> info.StoreName, id |-> stream_index])
                ELSE signal_streams
          /\ sigs_index' = Put(sigs_index, << seg_index, gci >>, di)
          /\ sigs_lengths' = IF key \notin DOMAIN sigs_lengths
                             THEN Put(sigs_lengths, key, size) ELSE sigs_lengths
          /\ sigs_t_start' = IF r2 /\ key \notin DOMAIN sigs_t_start
                             THEN Put(sigs_t_start, key, t_start) ELSE sigs_t_start
          /\ sampling_rate' = IF r3 /\ first THEN << sr >>
                              ELSE IF first THEN Unset ELSE sampling_rate
          /\ dtype' = IF r3 /\ first THEN dt ELSE IF first THEN None ELSE dtype
          /\ sig_dtype_by_group' =
                IF r3 /\ first /\ stream_index \notin DOMAIN sig_dtype_by_group
                THEN Put(sig_dtype_by_group, stream_index, NpDtype(dt))
                ELSE sig_dtype_by_group
          /\ missing_sev_channels' = IF r4 /\ sev.missing
                                     THEN Append(missing_sev_channels, chan_id)
                                     ELSE missing_sev_channels
          /\ sigs_data_buf' = IF r5 THEN Put(sigs_data_buf, << seg_index, gci >>, data)
                              ELSE sigs_data_buf
          /\ signal_channels' =
                IF r5 /\ lastSeg
                THEN Append(signal_channels,
                            [name |-> << info.StoreName, c + 1 >>, id |-> chan_id,
                             sampling_rate |-> IF first THEN sr ELSE sampling_rate[1],
                             dtype |-> IF first THEN dt ELSE dtype,
                             stream_id |-> stream_index])
                ELSE signal_channels
          /\ IF r5
             THEN /\ seg_index' = IF lastSeg THEN 0 ELSE seg_index + 1
                  /\ c' = IF ~lastSeg THEN c ELSE IF lastCh THEN 0 ELSE c + 1
                  /\ stream_index' = IF lastSeg /\ lastCh /\ ~lastStr
                                     THEN stream_index + 1 ELSE stream_index
                  /\ pc' = IF lastSeg /\ lastCh /\ lastStr THEN "warn" ELSE "index"
                  /\ UNCHANGED error
             ELSE /\ Raise(IF ~r2 THEN "AssertionError: signal length"
                           ELSE IF ~r3 THEN "AssertionError: signal t_start"
                           ELSE IF ~r4 /\ first THEN "AssertionError: group dtype"
                           ELSE IF ~r4 THEN "AssertionError: sampling is changing!!!"
                           ELSE "AssertionError: no TEV nor SEV")
                  /\ UNCHANGED << seg_index, c, stream_index >>
    /\ UNCHANGED << fs, unitVars, locateVars, info_channel_groups, loadVars, warnings, header,
                    planeVars >>

\* np.unique: the values of a set in ascending order
Unique(S) ==
    CHOOSE u \in [1..Cardinality(S) -> S] : \A a, b \in DOMAIN u : a < b => u[a] < u[b]

\* np.hstack(self._tsq)
RECURSIVE hstack(_)
hstack(ts) == IF ts = << >> THEN << >> ELSE Head(ts) \o hstack(Tail(ts))

\* lines 301-307: the units of channel chan_id of a spike store
units_of_channel(info, chan_id) ==
    LET all       == hstack(tsq)
        sortcodes == { all[k].sortcode : k \in { j \in 1..Len(all) :
                          /\ all[j].evtype = EVTYPE_SNIP
                          /\ all[j].evname = info.StoreName
                          /\ all[j].channel = chan_id } }
        unit_ids  == Unique(sortcodes)
    IN [k \in 1..Len(unit_ids) |->
           [store |-> info.StoreName, chan_id |-> chan_id, unit_id |-> unit_ids[k],
            size |-> info.NumPoints, dtype |-> data_formats[info.DataFormat],
            left_sweep |-> info.NumPoints \div 2, rate |-> info.SampleFreq]]

\* lines 299-320: the units of the channels c, c + 1, ... of a spike store
RECURSIVE units_of_store(_, _)
units_of_store(info, chan) ==
    IF chan >= info.NumChan THEN << >>
    ELSE units_of_channel(info, chan + 1) \o units_of_store(info, chan + 1)

\* lines 294-320: the units of the spike stores of a descriptor list
RECURSIVE units_of(_)
units_of(infos) ==
    IF infos = << >> THEN << >>
    ELSE (IF Head(infos).TankEvType = EVTYPE_SNIP
          THEN units_of_store(Head(infos), 0) ELSE << >>)
         \o units_of(Tail(infos))

\* lines 324-332: one event channel per event store
event_channels_of(infos) ==
    LET Keep(d) == d.TankEvType = EVTYPE_STRON
        kept    == SelectSeq(infos, Keep)
    IN [k \in 1..Len(kept) |-> [name |-> kept[k].StoreName, id |-> 1, type |-> "event"]]

\* lines 283-344: the missing-SEV warning and the header
Finish ==
    /\ pc = "warn"
    /\ warnings' = IF missing_sev_channels # << >>
                   THEN Append(warnings, [msg |-> "Could not identify sev files",
                                           channels |-> missing_sev_channels])
                   ELSE warnings
    /\ LET units == units_of(info_channel_groups[1])
       IN /\ internal_unit_ids' =
                [k \in 1..Len(units) |-> [store |-> units[k].store,
                                          chan_id |-> units[k].chan_id,
                                          unit_id |-> units[k].unit_id]]
          /\ waveforms_size' = [k \in 1..Len(units) |-> units[k].size]
          /\ waveforms_dtype' = [k \in 1..Len(units) |-> units[k].dtype]
          /\ header' =
                << [nb_segment |-> nb_segment, signal_streams |-> signal_streams,
                    signal_channels |-> signal_channels,
                    spike_channels |->
                        [k \in 1..Len(units) |->
                            [name |-> << units[k].chan_id, units[k].unit_id >>,
                             id |-> units[k].unit_id,
                             wf_left_sweep |-> units[k].left_sweep,
                             wf_sampling_rate |-> units[k].rate]],
                    event_channels |-> event_channels_of(info_channel_groups[1])] >>
    /\ pc' = "done"
    /\ UNCHANGED << fs, seg_index, locateVars, info_channel_groups, loadVars,
                    indexVars, loopVars, error, planeVars >>

\* ------------------------------------------------------------ data plane
\* lines 352-353
segment_t_start(seg) == FSub(seg_t_starts[seg + 1], global_t_start[1])

\* the stop time without the time origin taken off
segment_t_stop_raw(seg) == seg_t_stops[seg + 1]

\* lines 355-356
segment_t_stop(seg) == FSub(seg_t_stops[seg + 1], global_t_start[1])

\* lines 358-360
get_signal_size(seg, stream) == sigs_lengths[<< seg, stream >>]

\* lines 362-363
get_signal_t_start(seg, stream) ==
    FSub(sigs_t_start[<< seg, stream >>], global_t_start[1])

\* the caller holds no result of an earlier call
Idle == pc = "done" /\ call.op = "none"

SegmentTStart ==
    /\ Idle
    /\ \E seg \in 0..(nb_segment - 1) :
        /\ call' = [op |-> "segment_t_start", seg_index |-> seg]
        /\ ret' = << segment_t_start(seg) >>
    /\ UNCHANGED << fs, unitVars, pc, seg_index, locateVars, info_channel_groups, loadVars,
                    indexVars, loopVars, warnings, error, header >>

SegmentTStop ==
    /\ Idle
    /\ \E seg \in 0..(nb_segment - 1) :
        /\ call' = [op |-> "segment_t_stop", seg_index |-> seg]
        /\ ret' = << segment_t_stop(seg) >>
    /\ UNCHANGED << fs, unitVars, pc, seg_index, locateVars, info_channel_groups, loadVars,
                    indexVars, loopVars, warnings, error, header >>

\* the element obtained by viewing width bytes of a buffer at byte offset at
Elem(buf, at, width) == [buf |-> buf, at |-> at, width |-> width]
\* an element of np.zeros
Zero == Elem(NoBuf, 0, 0)

\* lines 398-400: data_buf[ind0:ind1].view(dt) for chunk bl of a channel
chunk_data(di, buf, bl, spc, width) ==
    IF bl + 1 \in DOMAIN di
    THEN [j \in 1..spc |-> Elem(buf, di[bl + 1].offset + (j - 1) * width, width)]
    ELSE << >>

\* the right border without the test that the stop falls on a chunk boundary
right_border_unguarded(data, bl, bl1, i_stop, spc) ==
    IF bl = bl1 - 1 THEN Len(data) - (i_stop % spc) ELSE 0

\* lines 402-408: the right border; the number of trailing samples cut
right_border(data, bl, bl1, i_stop, spc) ==
    IF bl = bl1 - 1
    THEN LET border == Len(data) - (i_stop % spc)
         IN IF border # Len(data) THEN border ELSE 0
    ELSE 0

\* the left border applied to every chunk
left_border_every_chunk(bl, bl0, i_start, spc) == i_start % spc

\* lines 409-412: the left border; the number of leading samples cut
left_border(bl, bl0, i_start, spc) ==
    IF bl = bl0 THEN i_start % spc ELSE 0

\* lines 397-415: what one pass of the chunk loop contributes
piece_of(di, buf, bl, bl0, bl1, i_start, i_stop, spc, width) ==
    LET data  == chunk_data(di, buf, bl, spc, width)
        trail == right_border(data, bl, bl1, i_stop, spc)
        cut   == SubSeq(data, 1, Len(data) - Min(trail, Len(data)))
        lead  == left_border(bl, bl0, i_start, spc)
    IN [bl |-> bl, lead |-> lead, trail |-> trail,
        data |-> SubSeq(cut, Min(lead, Len(cut)) + 1, Len(cut))]

RECURSIVE pieces_from(_, _, _, _, _, _, _, _, _)
pieces_from(di, buf, bl, bl0, bl1, i_start, i_stop, spc, width) ==
    IF bl >= bl1 THEN << >>
    ELSE << piece_of(di, buf, bl, bl0, bl1, i_start, i_stop, spc, width) >>
         \o pieces_from(di, buf, bl + 1, bl0, bl1, i_start, i_stop, spc, width)

RECURSIVE Flatten(_)
Flatten(ps) == IF ps = << >> THEN << >> ELSE Head(ps).data \o Flatten(Tail(ps))

\* lines 374-381: the global indexes of the selected channels of a stream
global_chan_indexes_of(stream, channel_indexes) ==
    LET chans == header[1].signal_channels
        InStream(k) == chans[k + 1].stream_id = header[1].signal_streams[stream + 1].id
        all   == SelectSeq([k \in 1..Len(chans) |-> k - 1], InStream)
    IN IF channel_indexes = Unset THEN all
       ELSE [k \in 1..Len(channel_indexes[1]) |-> all[channel_indexes[1][k] + 1]]

\* lines 365-417: _get_analogsignal_chunk; the result is the matrix as a list of
\* columns, with the pieces each column was assembled from
get_analogsignal_chunk(seg, i_start_arg, i_stop_arg, stream, channel_indexes) ==
    LET i_start == IF i_start_arg = Unset THEN 0 ELSE i_start_arg[1]
        i_stop  == IF i_stop_arg = Unset THEN sigs_lengths[<< seg, stream >>]
                   ELSE i_stop_arg[1]
        gcis    == global_chan_indexes_of(stream, channel_indexes)
        dt      == sig_dtype_by_group[stream]
        rows    == i_stop - i_start
        spc     == sig_sample_per_chunk[stream]
        bl0     == i_start \div spc
        bl1     == (i_stop + spc - 1) \div spc
        ps(k)   == pieces_from(sigs_index[<< seg, gcis[k] >>],
                               sigs_data_buf[<< seg, gcis[k] >>],
                               bl0, bl0, bl1, i_start, i_stop, spc, ItemSize(dt))
        col(k)  == LET d == Flatten(ps(k))
                   IN [r \in 1..rows |-> IF r <= Len(d) THEN d[r] ELSE Zero]
        fits    == \A k \in 1..Len(gcis) : Len(Flatten(ps(k))) <= rows
    IN [error  |-> IF fits THEN None ELSE "ValueError: could not broadcast",
        dtype  |-> dt,
        rows   |-> rows,
        cols   |-> [k \in 1..Len(gcis) |-> col(k)],
        pieces |-> [k \in 1..Len(gcis) |-> ps(k)]]

\* the channel selections of a stream with n channels: None, or a list of
\* distinct positions
Selections(n) ==
    {Unset} \cup { << sel >> : sel \in
        UNION { { q \in [1..m -> 0..(n - 1)] : \A a, b \in 1..m : q[a] = q[b] => a = b }
                : m \in 1..n } }

\* the sample ranges of a signal of the given length: None, or a sample number
Bounds(length) == {Unset} \cup { << x >> : x \in 0..length }

\* the sample numbers around the range [300, 600) of a 1024-sample signal
NearScenario == { << x >> : x \in (295..305) \cup (595..605) }

\* the recording of the chunk-trimming scenario: one block, one stream store of 2
\* channels with 256 points per chunk and 4 chunks per channel
ScenarioRecordings ==
    { Recording("multi", "", NoSort("nodir"),
                << Block("Block-1", << Wav(256) >>,
                         Tsq(<< Wav(256) >>, 50, TRUE, TRUE, 4, "plain"), tev) >>, {})
      : tev \in {TRUE} }

\* the sample numbers a caller passes: every one of a short signal, those around
\* the scenario's range for the long signal of the scenario
SampleRanges(length) ==
    IF fs \in ScenarioRecordings THEN NearScenario ELSE Bounds(length)

NumChannelsOf(stream) ==
    Cardinality({ k \in 1..Len(header[1].signal_channels) :
                    header[1].signal_channels[k].stream_id = stream })

\* a call of _get_analogsignal_chunk
GetAnalogsignalChunk ==
    /\ Idle
    /\ \E seg \in 0..(nb_segment - 1),
          stream \in 0..(Len(header[1].signal_streams) - 1) :
       \E i_start \in SampleRanges(get_signal_size(seg, stream)),
          i_stop \in SampleRanges(get_signal_size(seg, stream)),
          channel_indexes \in Selections(NumChannelsOf(stream)) :
        /\ i_start # Unset /\ i_stop # Unset => i_start[1] <= i_stop[1]
        /\ call' = [op |-> "get_analogsignal_chunk", seg_index |-> seg,
                    i_start |-> i_start, i_stop |-> i_stop,
                    stream_index |-> stream, channel_indexes |-> channel_indexes]
        /\ ret' = << get_analogsignal_chunk(seg, i_start, i_stop, stream,
                                            channel_indexes) >>
    /\ UNCHANGED << fs, unitVars, pc, seg_index, locateVars, info_channel_groups, loadVars,
                    indexVars, loopVars, warnings, error, header >>

\* a call of _get_signal_size
GetSignalSize ==
    /\ Idle
    /\ \E seg \in 0..(nb_segment - 1),
          stream \in 0..(Len(header[1].signal_streams) - 1) :
        /\ call' = [op |-> "get_signal_size", seg_index |-> seg,
                    stream_index |-> stream]
        /\ ret' = << get_signal_size(seg, stream) >>
    /\ UNCHANGED << fs, unitVars, pc, seg_index, locateVars, info_channel_groups, loadVars,
                    indexVars, loopVars, warnings, error, header >>

\* a call of _get_signal_t_start
GetSignalTStart ==
    /\ Idle
    /\ \E seg \in 0..(nb_segment - 1),
          stream \in 0..(Len(header[1].signal_streams) - 1) :
        /\ call' = [op |-> "get_signal_t_start", seg_index |-> seg,
                    stream_index |-> stream]
        /\ ret' = << get_signal_t_start(seg, stream) >>
    /\ UNCHANGED << fs, unitVars, pc, seg_index, locateVars, info_channel_groups, loadVars,
                    indexVars, loopVars, warnings, error, header >>

\* lines 419-434: _get_mask, one boolean per record of the index array
get_mask(t, evtype, evname, chan_id, unit_id, t_start, t_stop) ==
    [k \in 1..Len(t) |->
        /\ t[k].evtype = evtype
        /\ t[k].evname = evname
        /\ t[k].channel = chan_id
        /\ (unit_id # Unset => t[k].sortcode = unit_id[1])
        /\ (t_start # Unset =>
               FGe(t[k].timestamp, FAdd(t_start[1], global_t_start[1])))
        /\ (t_stop # Unset =>
               FLe(t[k].timestamp, FAdd(t_stop[1], global_t_start[1])))]

\* tsq[mask]: the selected records, in order
masked(t, mask) ==
    LET Sel(k) == mask[k]
        idx    == SelectSeq([k \in 1..Len(t) |-> k], Sel)
    IN [k \in 1..Len(idx) |-> t[idx[k]]]

\* np.sum(mask)
mask_sum(mask) == Cardinality({ k \in DOMAIN mask : mask[k] })

\* the index array after an in-place subtraction on a view of its selected
\* records
isub_timestamps_view(t, mask, g) ==
    [k \in 1..Len(t) |->
        IF mask[k] THEN [t[k] EXCEPT !.timestamp = FSub(@, g)] ELSE t[k]]

\* lines 449-450 and 494-495: the index array after timestamps -= g, where
\* timestamps is a field of tsq[mask]; selection by a boolean mask copies
isub_timestamps(t, mask, g) == t

\* the mask of a unit's spikes (lines 445-448, 459-462)
spike_mask(seg, unit_index, t_start, t_stop) ==
    LET u == internal_unit_ids[unit_index + 1]
    IN get_mask(tsq[seg + 1], EVTYPE_SNIP, u.store, u.chan_id, << u.unit_id >>,
                t_start, t_stop)

\* lines 436-442
spike_count(seg, unit_index) == mask_sum(spike_mask(seg, unit_index, Unset, Unset))

\* lines 444-451
get_spike_timestamps(seg, unit_index, t_start, t_stop) ==
    LET sel == masked(tsq[seg + 1], spike_mask(seg, unit_index, t_start, t_stop))
    IN [k \in 1..Len(sel) |-> FSub(sel[k].timestamp, global_t_start[1])]

\* lines 458-476: one row of nb_sample elements per selected spike
get_spike_raw_waveforms(seg, unit_index, t_start, t_stop) ==
    LET sel       == masked(tsq[seg + 1], spike_mask(seg, unit_index, t_start, t_stop))
        data      == tev_datas[seg + 1]
        dt        == waveforms_dtype[unit_index + 1]
        nb_sample == waveforms_size[unit_index + 1]
    IN IF Len(sel) > 0 /\ data.kind = "none"
       THEN [error |-> "TypeError: 'NoneType' object is not subscriptable",
             dtype |-> dt, waveforms |-> << >>]
       ELSE [error |-> None, dtype |-> dt,
             waveforms |-> [i \in 1..Len(sel) |->
                 [j \in 1..nb_sample |->
                     Elem(data, sel[i].offset + (j - 1) * ItemSize(dt), ItemSize(dt))]]]

\* the mask of an event channel's records (lines 479-483, 488-492): channel 0,
\* no time limits
event_mask(seg, event_channel_index) ==
    get_mask(tsq[seg + 1], EVTYPE_STRON,
             header[1].event_channels[event_channel_index + 1].name, 0,
             Unset, Unset, Unset)

\* lines 478-485
event_count(seg, event_channel_index) == mask_sum(event_mask(seg, event_channel_index))

\* lines 487-502: timestamps, durations and labels
get_event_timestamps(seg, event_channel_index, t_start, t_stop) ==
    LET sel == masked(tsq[seg + 1], event_mask(seg, event_channel_index))
    IN [timestamps |-> [k \in 1..Len(sel) |->
                           FSub(sel[k].timestamp, global_t_start[1])],
        durations  |-> None,
        labels     |-> [k \in 1..Len(sel) |-> [U |-> sel[k].offset]]]

\* the time limits a caller passes: None, or a time relative to the time origin
TimeArgs == {Unset} \cup { << x >> : x \in {1, 2, 51} }

\* a call of _spike_count
SpikeCount ==
    /\ Idle
    /\ \E seg \in 0..(nb_segment - 1), unit \in 0..(Len(internal_unit_ids) - 1) :
        /\ call' = [op |-> "spike_count", seg_index |-> seg, unit_index |-> unit]
        /\ ret' = << spike_count(seg, unit) >>
    /\ UNCHANGED << fs, unitVars, pc, seg_index, locateVars, info_channel_groups, loadVars,
                    indexVars, loopVars, warnings, error, header >>

\* a call of _get_spike_timestamps
GetSpikeTimestamps ==
    /\ Idle
    /\ \E seg \in 0..(nb_segment - 1), unit \in 0..(Len(internal_unit_ids) - 1),
          t_start \in TimeArgs, t_stop \in TimeArgs :
        /\ call' = [op |-> "get_spike_timestamps", seg_index |-> seg,
                    unit_index |-> unit, t_start |-> t_start, t_stop |-> t_stop]
        /\ ret' = << get_spike_timestamps(seg, unit, t_start, t_stop) >>
        /\ tsq' = [tsq EXCEPT ![seg + 1] =
                      isub_timestamps(@, spike_mask(seg, unit, t_start, t_stop),
                                      global_t_start[1])]
    /\ UNCHANGED << fs, unitVars, pc, seg_index, locateVars, info_channel_groups,
                    tev_datas, seg_t_starts, seg_t_stops, global_t_start,
                    indexVars, loopVars, warnings, error, header >>

\* a call of _get_spike_raw_waveforms
GetSpikeRawWaveforms ==
    /\ Idle
    /\ \E seg \in 0..(nb_segment - 1), unit \in 0..(Len(internal_unit_ids) - 1),
          t_start \in TimeArgs, t_stop \in TimeArgs :
        /\ call' = [op |-> "get_spike_raw_waveforms", seg_index |-> seg,
                    unit_index |-> unit, t_start |-> t_start, t_stop |-> t_stop]
        /\ ret' = << get_spike_raw_waveforms(seg, unit, t_start, t_stop) >>
    /\ UNCHANGED << fs, unitVars, pc, seg_index, locateVars, info_channel_groups, loadVars,
                    indexVars, loopVars, warnings, error, header >>

\* a call of _event_count
EventCount ==
    /\ Idle
    /\ \E seg \in 0..(nb_segment - 1),
          ev \in 0..(Len(header[1].event_channels) - 1) :
        /\ call' = [op |-> "event_count", seg_index |-> seg,
                    event_channel_index |-> ev]
        /\ ret' = << event_count(seg, ev) >>
    /\ UNCHANGED << fs, unitVars, pc, seg_index, locateVars, info_channel_groups, loadVars,
                    indexVars, loopVars, warnings, error, header >>

\* a call of _get_event_timestamps
GetEventTimestamps ==
    /\ Idle
    /\ \E seg \in 0..(nb_segment - 1),
          ev \in 0..(Len(header[1].event_channels) - 1),
          t_start \in TimeArgs, t_stop \in TimeArgs :
        /\ call' = [op |-> "get_event_timestamps", seg_index |-> seg,
                    event_channel_index |-> ev, t_start |-> t_start,
                    t_stop |-> t_stop]
        /\ ret' = << get_event_timestamps(seg, ev, t_start, t_stop) >>
        /\ tsq' = [tsq EXCEPT ![seg + 1] =
                      isub_timestamps(@, event_mask(seg, ev), global_t_start[1])]
    /\ UNCHANGED << fs, unitVars, pc, seg_index, locateVars, info_channel_groups,
                    tev_datas, seg_t_starts, seg_t_stops, global_t_start,
                    indexVars, loopVars, warnings, error, header >>

\* the return statements of the data-plane methods: the result goes to the
\* caller and the reader is ready for the next call
Return ==
    /\ pc = "done" /\ call.op # "none"
    /\ call' = [op |-> "none"]
    /\ ret' = Unset
    /\ UNCHANGED << fs, unitVars, pc, seg_index, locateVars, info_channel_groups, loadVars,
                    indexVars, loopVars, warnings, error, header >>

Next ==
    \/ Locate \/ ReadTbk \/ MapTev \/ LoadTsq \/ Reorder \/ IndexStep \/ Finish
    \/ SegmentTStart \/ SegmentTStop \/ GetSignalSize \/ GetSignalTStart
    \/ GetAnalogsignalChunk
    \/ SpikeCount \/ GetSpikeTimestamps \/ GetSpikeRawWaveforms
    \/ EventCount \/ GetEventTimestamps
    \/ Return

Spec == Init /\ [][Next]_vars

InitScenario == InitOn(ScenarioRecordings)

\* the scenario's tank has no spike or event store: the calls that can be made
NextScenario ==
    \/ Locate \/ ReadTbk \/ MapTev \/ LoadTsq \/ Reorder \/ IndexStep \/ Finish
    \/ SegmentTStart \/ SegmentTStop \/ GetSignalSize \/ GetSignalTStart
    \/ GetAnalogsignalChunk
    \/ Return

SpecScenario == InitScenario /\ [][NextScenario]_vars

\* ---------------------------------------------------------------- claims
Blocks == { e \in Range(fs.entries) : e.isblock }

\* the segments have been put in time order and the global start is set
Reordered == global_t_start # Unset

\* the index array of a block as open holds it: with the overlay when a sort
\* name is given and the file's labels can be assigned
HeldTsq(e) ==
    IF fs.sortname # "" /\ fs.sort.kind = "file"
       /\ (Len(fs.sort.labels) = Len(e.tsq) - 2 \/ Len(fs.sort.labels) = 1)
    THEN [k \in 1..Len(e.tsq) |->
            IF k >= 2 /\ k <= Len(e.tsq) - 1
            THEN [e.tsq[k] EXCEPT !.sortcode =
                    (IF Len(fs.sort.labels) = 1 THEN fs.sort.labels[1]
                     ELSE fs.sort.labels[k - 1]) % 65536]
            ELSE e.tsq[k]]
    ELSE e.tsq

\* C1: after the reordering step of open, whatever the enumeration order, the
\* segments are held in ascending order of start timestamp (undefined starts
\* after every defined one), every block is held exactly once, and position i of
\* the name, index, data-buffer, start and stop tables refers to the same block.
C1_ChronologicalOrder ==
    Reordered =>
        /\ \A i, j \in 1..nb_segment : i < j =>
              /\ (seg_t_starts[i] # NaN /\ seg_t_starts[j] # NaN
                    => seg_t_starts[i] <= seg_t_starts[j])
              /\ (seg_t_starts[i] = NaN => seg_t_starts[j] = NaN)
        /\ Range(segment_names) = { e.name : e \in Blocks }
        /\ nb_segment = Cardinality(Blocks)
        /\ Len(tsq) = nb_segment /\ Len(tev_datas) = nb_segment
        /\ Len(seg_t_starts) = nb_segment /\ Len(seg_t_stops) = nb_segment
        /\ \A i \in 1..nb_segment :
              LET e == EntryOf(segment_names[i])
              IN /\ seg_t_starts[i] = StartOf(e.tsq)
                 /\ seg_t_stops[i] = StopOf(e.tsq)
                 /\ tev_datas[i] = (IF e.tev THEN TevBuf(e.name) ELSE NoBuf)
                 /\ tsq[i] = HeldTsq(e)

\* C1 witness: a tank enumerated out of chronological order has been reordered
C1_Witness ==
    /\ Reordered /\ nb_segment >= 2
    /\ fs.entries[1].isblock /\ segment_names[1] # fs.entries[1].name
    /\ seg_t_starts[1] # NaN /\ seg_t_starts[2] # NaN
    /\ seg_t_starts[1] < seg_t_starts[2]

\* the earliest defined start marker of the recording, NaN when there is none
EarliestStart ==
    LET starts == { StartOf(e.tsq) : e \in Blocks } \ {NaN}
    IN IF starts = {} THEN NaN
       ELSE CHOOSE m \in starts : \A x \in starts : m <= x

\* the tank of the scenario: A = (100, 110) enumerated before B = (50, 60)
ScenarioTank ==
    /\ Len(fs.entries) = 2 /\ fs.entries[1].isblock /\ fs.entries[2].isblock
    /\ StartOf(fs.entries[1].tsq) = 100 /\ StopOf(fs.entries[1].tsq) = 110
    /\ StartOf(fs.entries[2].tsq) = 50 /\ StopOf(fs.entries[2].tsq) = 60

\* C2: the time origin is the start of the first segment after reordering, which
\* is the earliest start of the recording; every reported segment start and stop
\* is the block's raw marker timestamp minus the origin; in the scenario tank
\* the order is [B, A], the origin 50 and A is reported as (50, 60).
C2_TimeOrigin ==
    /\ Reordered =>
          /\ global_t_start[1] = seg_t_starts[1]
          /\ global_t_start[1] = EarliestStart
    /\ call.op = "segment_t_start" =>
          ret[1] = FSub(StartOf(EntryOf(segment_names[call.seg_index + 1]).tsq),
                        EarliestStart)
    /\ call.op = "segment_t_stop" =>
          ret[1] = FSub(StopOf(EntryOf(segment_names[call.seg_index + 1]).tsq),
                        EarliestStart)
    /\ ScenarioTank /\ Reordered =>
          /\ segment_names = << fs.entries[2].name, fs.entries[1].name >>
          /\ global_t_start[1] = 50
          /\ (call.op = "segment_t_start" /\ call.seg_index = 1 => ret[1] = 50)
          /\ (call.op = "segment_t_stop" /\ call.seg_index = 1 => ret[1] = 60)

\* C2 witness: the stop of segment A of the scenario tank has been reported
C2_Witness ==
    /\ ScenarioTank /\ call.op = "segment_t_stop" /\ call.seg_index = 1
    /\ ret = << 60 >>

\* the streams of the header, as descriptors, and the number of channels before
\* stream number s in the header
StreamInfos == { d \in Range(info_channel_groups[1]) : d.TankEvType = EVTYPE_STREAM }
RECURSIVE ChannelsBefore(_)
ChannelsBefore(s) ==
    IF s = 0 THEN 0
    ELSE ChannelsBefore(s - 1)
         + (CHOOSE d \in StreamInfos : d.StoreName = header[1].signal_streams[s].name).NumChan

\* sample number n (from 0) of the concatenation, in index order, of the chunks
\* of a channel, each chunk being spc elements at its recorded offset
SampleOf(seg, gci, n, spc, width) ==
    [buf   |-> sigs_data_buf[<< seg, gci >>],
     at    |-> sigs_index[<< seg, gci >>][(n \div spc) + 1].offset + (n % spc) * width,
     width |-> width]

\* the arguments of the last chunk read, with the defaults filled in
ReadStart == IF call.i_start = Unset THEN 0 ELSE call.i_start[1]
ReadStop  == IF call.i_stop = Unset
             THEN sigs_lengths[<< call.seg_index, call.stream_index >>]
             ELSE call.i_stop[1]
ReadSelection ==
    IF call.channel_indexes = Unset
    THEN [k \in 1..(CHOOSE d \in StreamInfos :
                      d.StoreName = header[1].signal_streams[call.stream_index + 1].name).NumChan
           |-> k - 1]
    ELSE call.channel_indexes[1]

\* C3: a chunk read over 0 <= sample_start <= sample_stop <= length returns
\* sample_stop - sample_start rows and one column per selected channel, and each
\* column holds elements [sample_start, sample_stop) of the concatenation in
\* index order of that channel's chunks, read at their recorded offsets in the
\* group's sample format.
C3_ChunkRead ==
    call.op = "get_analogsignal_chunk" =>
        LET r     == ret[1]
            spc   == (CHOOSE d \in StreamInfos :
                        d.StoreName = header[1].signal_streams[call.stream_index + 1].name).NumPoints
            width == ItemSize(sig_dtype_by_group[call.stream_index])
        IN /\ r.error = None
           /\ r.rows = ReadStop - ReadStart
           /\ Len(r.cols) = Len(ReadSelection)
           /\ \A k \in 1..Len(ReadSelection) :
                 /\ Len(r.cols[k]) = ReadStop - ReadStart
                 /\ \A x \in 1..(ReadStop - ReadStart) :
                       r.cols[k][x] =
                          SampleOf(call.seg_index,
                                   ChannelsBefore(call.stream_index) + ReadSelection[k],
                                   ReadStart + x - 1, spc, width)

\* C3 witness: a read that lies strictly inside one chunk, so that the chunk is
\* both the first and the last and both trims apply, on the second channel
C3_Witness ==
    /\ call.op = "get_analogsignal_chunk"
    /\ call.channel_indexes = << << 1 >> >>
    /\ ReadStart < ReadStop
    /\ Len(ret[1].pieces[1]) = 1
    /\ ret[1].pieces[1][1].lead > 0 /\ ret[1].pieces[1][1].trail > 0
    /\ ret[1].pieces[1][1].bl = 1

\* the read of the scenario: samples [300, 600) of a 1024-sample signal with 256
\* points per chunk
ScenarioRead ==
    /\ call.op = "get_analogsignal_chunk"
    /\ sig_sample_per_chunk[call.stream_index] = 256
    /\ sigs_lengths[<< call.seg_index, call.stream_index >>] = 1024
    /\ call.i_start = << 300 >> /\ call.i_stop = << 600 >>

\* C4 as stated: 300 samples, 44 cut from the start of chunk 1 and 24 from the
\* end of chunk 2
C4_AsStated ==
    ScenarioRead =>
        /\ ret[1].rows = 300
        /\ \A k \in 1..Len(ret[1].cols) :
              /\ Len(ret[1].pieces[k]) = 2
              /\ ret[1].pieces[k][1].bl = 1 /\ ret[1].pieces[k][1].lead = 44
              /\ ret[1].pieces[k][2].bl = 2 /\ ret[1].pieces[k][2].trail = 24

\* C4 (amended): the read of [300, 600) returns exactly 300 samples, made of
\* chunk 1 with its first 44 samples cut and chunk 2 with its last 168 samples
\* cut (its first 88 kept), and nothing else is cut.
C4_ScenarioTrim ==
    ScenarioRead =>
        /\ ret[1].rows = 300 /\ ret[1].error = None
        /\ \A k \in 1..Len(ret[1].cols) :
              /\ Len(ret[1].cols[k]) = 300
              /\ Len(ret[1].pieces[k]) = 2
              /\ ret[1].pieces[k][1].bl = 1 /\ ret[1].pieces[k][1].lead = 44
              /\ ret[1].pieces[k][1].trail = 0 /\ Len(ret[1].pieces[k][1].data) = 212
              /\ ret[1].pieces[k][2].bl = 2 /\ ret[1].pieces[k][2].trail = 168
              /\ ret[1].pieces[k][2].lead = 0 /\ Len(ret[1].pieces[k][2].data) = 88
              /\ \A x \in 1..300 : ret[1].cols[k][x] # Zero

\* C4 witness: the scenario read has returned its 300 rows
C4_Witness == ScenarioRead /\ ret[1].rows = 300 /\ Len(ret[1].cols) = 2

AllTbkEqual == \A a, b \in Blocks : a.tbk = b.tbk

\* C5: open gets past the descriptor check only when the descriptor lists of all
\* blocks are equal; when two of them differ open fails with every segment still
\* listed and no header produced.
C5_DescriptorsMustAgree ==
    /\ pc \notin {"locate", "tbk", "failed"} => AllTbkEqual
    /\ pc = "failed" /\ error # "AssertionError: Channels differ across segments"
          => AllTbkEqual
    /\ error = "AssertionError: Channels differ across segments" =>
          /\ ~AllTbkEqual /\ pc = "failed"
          /\ nb_segment = Cardinality(Blocks)
    /\ ~AllTbkEqual => header = Unset /\ pc # "done"

\* C5 witness: open of a tank of several blocks has failed on the descriptors
C5_Witness ==
    /\ pc = "failed" /\ nb_segment >= 2
    /\ error = "AssertionError: Channels differ across segments"

\* a .SortResult file is read for the sort name given
OverlayGiven == fs.sortname # "" /\ fs.sort.kind = "file"

\* C6 as stated: every record but the second and the last takes the overlay's
\* labels in file order, the second and the last record keep their label
C6_AsStated ==
    OverlayGiven =>
        \A i \in 1..Len(tsq) :
            LET o == EntryOf(segment_names[i]).tsq
                n == Len(o)
                L == fs.sort.labels
            IN n >= 3 /\ Len(L) = n - 2 =>
                  /\ tsq[i][2].sortcode = o[2].sortcode
                  /\ tsq[i][n].sortcode = o[n].sortcode
                  /\ tsq[i][1].sortcode = L[1] % 65536
                  /\ \A k \in 3..(n - 1) : tsq[i][k].sortcode = L[k - 1] % 65536

\* C6 (amended): with one label per record other than the first and the last,
\* open overwrites the sort label of records 2 .. n-1 (the start sentinel in the
\* second record included) with the labels in file order, stored as unsigned
\* 16-bit values, and changes nothing else: the first record and the last record
\* (the stop sentinel) keep their label.
C6_OverlayRecords ==
    OverlayGiven =>
        \A i \in 1..Len(tsq) :
            LET o == EntryOf(segment_names[i]).tsq
                n == Len(o)
                L == fs.sort.labels
            IN Len(L) = n - 2 =>
                  /\ Len(tsq[i]) = n
                  /\ \A k \in 1..n :
                        tsq[i][k] = IF k >= 2 /\ k <= n - 1
                                    THEN [o[k] EXCEPT !.sortcode = L[k - 1] % 65536]
                                    ELSE o[k]

\* C6 witness: an index of six records has taken the labels 2, 2, 3, -1
C6_Witness ==
    /\ OverlayGiven /\ pc = "done" /\ Len(fs.sort.labels) = 4
    /\ \E i \in 1..Len(tsq) :
          /\ Len(tsq[i]) = 6
          /\ tsq[i][2].sortcode = 2 /\ tsq[i][3].sortcode = 2
          /\ tsq[i][4].sortcode = 3 /\ tsq[i][5].sortcode = 65535
          /\ tsq[i][6].sortcode = 0

\* open has failed while loading the index files
FailedInTsqLoop == pc = "failed" /\ Len(tsq) >= 1 /\ ~Reordered

\* the labels of the overlay can be assigned to the index array o
Fits(o) == Len(fs.sort.labels) = Len(o) - 2 \/ Len(fs.sort.labels) = 1

\* C7 as stated: whenever the overlay cannot be applied, for a file-system or a
\* parse reason, open does not fail for it and the labels are kept
C7_AsStated ==
    fs.sortname # "" =>
        \A i \in 1..Len(tsq) :
            LET o == EntryOf(segment_names[i]).tsq
            IN (fs.sort.kind \in {"nodir", "nofile"} \/ ~Fits(o)) =>
                  ~FailedInTsqLoop /\ tsq[i] = o

\* C7 (amended): with a sort name given, a file-system failure (sort directory
\* or .SortResult file absent) does not fail open and every record keeps its
\* decoded label; label data that cannot be assigned to the records of a segment
\* makes open fail with a ValueError, the records keeping their decoded labels.
C7_OverlayUnavailable ==
    fs.sortname # "" =>
        /\ fs.sort.kind \in {"nodir", "nofile"} =>
              /\ ~FailedInTsqLoop
              /\ \A i \in 1..Len(tsq) : tsq[i] = EntryOf(segment_names[i]).tsq
        /\ fs.sort.kind = "file" =>
              \A i \in 1..Len(tsq) :
                  LET o == EntryOf(segment_names[i]).tsq
                  IN ~Fits(o) =>
                        /\ FailedInTsqLoop
                        /\ error = "ValueError: could not broadcast input array"
                        /\ tsq[i] = o

\* C7 witness: open with a sort name and no sort directory has completed
C7_Witness ==
    /\ fs.sortname # "" /\ fs.sort.kind = "nodir" /\ pc = "done"
    /\ nb_segment >= 1 /\ tsq[1] = EntryOf(segment_names[1]).tsq

\* C8: a block without start (stop) marker gets an undefined start (stop), is
\* ordered after the blocks with a defined start, and open never fails on that
\* account: the assertion on the signal start time does not fail when the two
\* values compared are the same undefined segment start.
C8_MissingSentinelNonFatal ==
    /\ \A i \in 1..Len(seg_t_starts) :
          LET o == EntryOf(segment_names[i]).tsq
          IN /\ o[2].evname # Chr(EVMARK_STARTBLOCK) => seg_t_starts[i] = NaN
             /\ o[Len(o)].evname # Chr(EVMARK_STOPBLOCK) => seg_t_stops[i] = NaN
    /\ Reordered =>
          \A i, j \in 1..nb_segment :
              seg_t_starts[i] = NaN /\ seg_t_starts[j] # NaN => j < i
    /\ ~( /\ pc = "failed" /\ error = "AssertionError: signal t_start"
          /\ seg_t_starts[seg_index + 1] = NaN
          /\ sigs_t_start[<< seg_index, stream_index >>] = NaN )

FirstRate(key) ==
    IF Len(sigs_index[key]) > 0 THEN sigs_index[key][1].frequency ELSE 1
FirstFormat(key) ==
    IF Len(sigs_index[key]) > 0 THEN data_formats[sigs_index[key][1].dataformat]
    ELSE "int"

\* C9 as stated: open completes only when all chunks of a channel in a segment
\* carry the same sample rate and data format
C9_AsStated ==
    pc = "done" =>
        \A key \in DOMAIN sigs_index :
            \A a, b \in 1..Len(sigs_index[key]) :
                /\ sigs_index[key][a].frequency = sigs_index[key][b].frequency
                /\ sigs_index[key][a].dataformat = sigs_index[key][b].dataformat

\* C9 (amended): open completes only when, for every channel, the first chunk
\* records of all segments agree on sample rate and data format (1 Hz / integer
\* standing for a segment without chunks); open fails with 'sampling is
\* changing' exactly on a segment whose first chunk differs from that of the
\* channel's first segment.  Later chunks of a segment are not compared.
C9_SamplingAcrossSegments ==
    /\ pc = "done" =>
          \A k1, k2 \in DOMAIN sigs_index :
              k1[2] = k2[2] =>
                  FirstRate(k1) = FirstRate(k2) /\ FirstFormat(k1) = FirstFormat(k2)
    /\ error = "AssertionError: sampling is changing!!!" =>
          LET here  == << seg_index, Len(signal_channels) >>
              first == << 0, Len(signal_channels) >>
          IN /\ pc = "failed" /\ seg_index > 0
             /\ (FirstRate(here) # FirstRate(first)
                   \/ FirstFormat(here) # FirstFormat(first))

\* C9 witness: open has failed on a channel whose first chunks in two segments
\* carry different data formats at the same rate
C9_Witness ==
    /\ pc = "failed" /\ error = "AssertionError: sampling is changing!!!"
    /\ Len(sigs_index[<< 0, Len(signal_channels) >>]) > 0
    /\ Len(sigs_index[<< seg_index, Len(signal_channels) >>]) > 0
    /\ FirstRate(<< 0, Len(signal_channels) >>)
          = FirstRate(<< seg_index, Len(signal_channels) >>)

SevWarnings ==
    LET IsSev(w) == w.msg = "Could not identify sev files"
    IN SelectSeq(warnings, IsSev)

\* single-block mode: exactly one .sev file matches the channel number, or
\* several do and exactly one of them matches <store>_Ch<chan>
Resolvable(store, chan) ==
    LET byChan == { f \in fs.sev : f.dir = "parent" /\ f.chan = chan }
    IN \/ Cardinality(byChan) = 1
       \/ /\ Cardinality(byChan) > 1
          /\ Cardinality({ f \in byChan : f.store = store /\ f.cap }) = 1

StoreOfChannel(ch) == header[1].signal_streams[ch.stream_id + 1].name

\* the channel numbers of the unresolvable channels, in indexing order
ExpectedMissing ==
    LET Unres(ch) == ~Resolvable(StoreOfChannel(ch), ch.id)
        chans == SelectSeq(signal_channels, Unres)
    IN [k \in 1..Len(chans) |-> chans[k].id]

\* C10 as stated: in either mode a channel that reads from the multiplexed
\* buffer has been recorded as missing and reported by exactly one warning
C10_AsStated ==
    pc = "done" =>
        \A key \in DOMAIN sigs_data_buf :
            sigs_data_buf[key].kind = "tev" =>
                /\ signal_channels[key[2] + 1].id \in Range(missing_sev_channels)
                /\ Len(SevWarnings) = 1

\* C10 (amended): in single-segment mode each stream channel whose file pattern
\* does not resolve to exactly one file is recorded as missing, the missing
\* channels are reported by exactly one warning issued when indexing has
\* completed, and such a channel reads from the block's multiplexed buffer (open
\* failing with 'no TEV nor SEV' only when the block has none); in multi-segment
\* mode no channel is recorded as missing and no warning is issued.
C10_MissingSevWarning ==
    /\ fs.mode = "multi" => missing_sev_channels = << >> /\ SevWarnings = << >>
    /\ pc # "done" => SevWarnings = << >>
    /\ pc = "done" =>
          SevWarnings = IF missing_sev_channels = << >> THEN << >>
                        ELSE << [msg |-> "Could not identify sev files",
                                 channels |-> missing_sev_channels] >>
    /\ fs.mode = "single" /\ pc = "done" =>
          /\ missing_sev_channels = ExpectedMissing
          /\ \A k \in 1..Len(signal_channels) :
                ~Resolvable(StoreOfChannel(signal_channels[k]), signal_channels[k].id)
                   => sigs_data_buf[<< 0, k - 1 >>] = TevBuf(segment_names[1])
    /\ error = "AssertionError: no TEV nor SEV" =>
          ~EntryOf(segment_names[seg_index + 1]).tev

\* C10 witness: a single block with one resolvable and one unresolvable channel
\* has been opened and the warning issued
C10_Witness ==
    /\ fs.mode = "single" /\ pc = "done"
    /\ Len(SevWarnings) = 1
    /\ Len(missing_sev_channels) >= 1
    /\ Len(missing_sev_channels) < Len(signal_channels)

\* the result of the data-plane call c, made in the present state
ResultOf(made) ==
    CASE made.op = "segment_t_start" -> segment_t_start(made.seg_index)
      [] made.op = "segment_t_stop" -> segment_t_stop(made.seg_index)
      [] made.op = "get_signal_size" -> get_signal_size(made.seg_index, made.stream_index)
      [] made.op = "get_signal_t_start" -> get_signal_t_start(made.seg_index, made.stream_index)
      [] made.op = "get_analogsignal_chunk" ->
            get_analogsignal_chunk(made.seg_index, made.i_start, made.i_stop, made.stream_index,
                                   made.channel_indexes)
      [] made.op = "spike_count" -> spike_count(made.seg_index, made.unit_index)
      [] made.op = "get_spike_timestamps" ->
            get_spike_timestamps(made.seg_index, made.unit_index, made.t_start, made.t_stop)
      [] made.op = "get_spike_raw_waveforms" ->
            get_spike_raw_waveforms(made.seg_index, made.unit_index, made.t_start, made.t_stop)
      [] made.op = "event_count" -> event_count(made.seg_index, made.event_channel_index)
      [] OTHER ->
            get_event_timestamps(made.seg_index, made.event_channel_index, made.t_start,
                                 made.t_stop)

\* C11: once open has completed, no data-plane operation changes the index
\* arrays, the per-channel chunk indexes, the data buffers, the segment
\* start/stop tables, the signal length/start tables or the global time origin,
\* and the call just made, made again with the same arguments, returns the
\* same result; with the tables never changing, so does it at any later point.
C11_DataPlaneFrame ==
    /\ [](pc = "done" /\ call.op # "none" => ret = << ResultOf(call) >>)
    /\ [][pc = "done" =>
            UNCHANGED << tsq, sigs_index, sigs_data_buf, tev_datas, seg_t_starts,
                         seg_t_stops, global_t_start, sigs_lengths, sigs_t_start,
                         sig_dtype_by_group, sig_sample_per_chunk,
                         internal_unit_ids, waveforms_size, waveforms_dtype,
                         header >>]_vars

\* spike times were returned relative to a time origin other than 0
C11_Witness ==
    /\ pc = "done"
    /\ call.op = "get_spike_timestamps"
    /\ ret[1] # << >>
    /\ global_t_start[1] > 0
    /\ nb_segment = 2

\* the assertions of the stream indexer on a channel's length, start, rate and
\* sample type
IndexAssertions ==
    {"AssertionError: signal length", "AssertionError: signal t_start",
     "AssertionError: group dtype", "AssertionError: sampling is changing!!!"}

\* a segment holds no chunk record of a stream store
StoreAbsent(seg, store) ==
    \A k \in 1..Len(tsq[seg + 1]) :
        ~(/\ tsq[seg + 1][k].evtype \in {EVTYPE_STREAM, EVTYPE_STREAM_VARIANT}
          /\ tsq[seg + 1][k].evname = store)

\* the store the stream indexer is at
StoreAtHand == Streams(info_channel_groups[1])[stream_index + 1].StoreName

\* C12: the channels of a stream store without chunk records in a segment
\* (whose start marker is present) are indexed without failing open, whatever
\* the other segments hold: none of the indexer's assertions fails at such a
\* segment, and once open is done the segment's sample count of the stream is
\* 0 and its signal start is the segment's start.
C12_EmptyChannelIndexed ==
    /\ pc = "failed" /\ error \in IndexAssertions
          => ~(StoreAbsent(seg_index, StoreAtHand) /\ seg_t_starts[seg_index + 1] # NaN)
    /\ pc = "done" =>
          \A seg \in 0..(nb_segment - 1), k \in 1..Len(signal_streams) :
             StoreAbsent(seg, signal_streams[k].name) /\ seg_t_starts[seg + 1] # NaN
                => /\ sigs_lengths[<< seg, k - 1 >>] = 0
                   /\ sigs_t_start[<< seg, k - 1 >>] = seg_t_starts[seg + 1]

\* the descriptors whose event-type tag is one of tags, in file order
Tagged(tags) ==
    LET Keep(d) == d.TankEvType \in tags
    IN SelectSeq(info_channel_groups[1], Keep)

\* the channels declared by a list of descriptors
RECURSIVE ChannelSum(_)
ChannelSum(ds) == IF ds = << >> THEN 0 ELSE Head(ds).NumChan + ChannelSum(Tail(ds))

\* the stream and stream-variant records of a store's channel, in file order
RECURSIVE Chosen(_, _, _)
Chosen(t, store, ch) ==
    IF t = << >> THEN << >>
    ELSE (IF /\ Head(t).evtype \in {EVTYPE_STREAM, EVTYPE_STREAM_VARIANT}
             /\ Head(t).evname = store
             /\ Head(t).channel = ch
          THEN << Head(t) >> ELSE << >>)
         \o Chosen(Tail(t), store, ch)

\* the header and the chunk indexes hold one stream per descriptor tagged with
\* one of tags, one channel per declared channel, and for every segment the
\* chosen records as the channel's chunk index
StreamsIndexedFor(tags) ==
    LET ds == Tagged(tags)
    IN /\ Len(header[1].signal_streams) = Len(ds)
       /\ \A s \in 1..Len(ds) : header[1].signal_streams[s].name = ds[s].StoreName
       /\ Len(header[1].signal_channels) = ChannelSum(ds)
       /\ \A s \in 1..Len(ds) : \A ch \in 1..ds[s].NumChan :
             LET gci == ChannelSum(SubSeq(ds, 1, s - 1)) + ch - 1
             IN /\ header[1].signal_channels[gci + 1].id = ch
                /\ header[1].signal_channels[gci + 1].stream_id = s - 1
                /\ \A seg \in 0..(nb_segment - 1) :
                      /\ << seg, gci >> \in DOMAIN sigs_index
                      /\ sigs_index[<< seg, gci >>]
                            = Chosen(tsq[seg + 1], ds[s].StoreName, ch)

\* C13 as stated: when open is done there is one stream, with one indexed
\* channel per declared channel in every segment, for every descriptor tagged
\* stream or stream-variant, each chunk index being the segment's stream and
\* stream-variant records of that store and channel in file order.
C13_AsStated == pc = "done" => StreamsIndexedFor({EVTYPE_STREAM, EVTYPE_STREAM_VARIANT})

\* C13 (amended): when open is done there is one stream, with one indexed
\* channel per declared channel in every segment, for every descriptor tagged
\* with the stream type and for no other descriptor (a descriptor tagged
\* stream-variant yields no stream); each chunk index is the segment's stream
\* and stream-variant records of that store and channel in file order.
C13_StreamIndexing == pc = "done" => StreamsIndexedFor({EVTYPE_STREAM})

\* C13 witness: a two-segment tank is open and a chunk index holds a
\* stream-variant record
C13_Witness ==
    /\ pc = "done" /\ nb_segment = 2
    /\ Len(header[1].signal_channels) >= 2
    /\ \E key \in DOMAIN sigs_index : \E k \in 1..Len(sigs_index[key]) :
          sigs_index[key][k].evtype = EVTYPE_STREAM_VARIANT

\* the dedicated file of a channel kept with the files of its own segment
OwnSevFile(segment_name, store, chan) ==
    SevFile(segment_name, segment_name, store, FALSE, chan)

\* C14: in multi-segment mode, once open is done, the buffer of every channel
\* in every segment is the channel's dedicated file kept with that segment's
\* own files when that file exists, and the segment's multiplexed buffer
\* otherwise, whatever the enumeration order, the other segments and the sort
\* name.
C14_BufferOfOwnSegment ==
    pc = "done" /\ fs.mode = "multi" =>
        \A seg \in 0..(nb_segment - 1), k \in 1..Len(header[1].signal_channels) :
            LET ch  == header[1].signal_channels[k]
                own == OwnSevFile(segment_names[seg + 1], StoreOfChannel(ch), ch.id)
            IN sigs_data_buf[<< seg, k - 1 >>]
                 = IF own \in fs.sev THEN SevBuf(own)
                   ELSE TevBuf(segment_names[seg + 1])

====
